---------------------------- MODULE Spec2Model ----------------------------
(***************************************************************************)
(* A model of the datetime-resolution pipeline of src/datetime_parsing.py: *)
(* the format registry, the timezone-suffix normalisation, the             *)
(* first-match-wins coalescing of the strptime parsers, the Unix-epoch     *)
(* recognition path, the merge of the two candidates and the bookkeeping   *)
(* of the ParseResult.                                                     *)
(*                                                                         *)
(* A text is a sequence of characters, each character a one-character      *)
(* string (TLC strings cannot be indexed).  A nullable value is <<>>       *)
(* (null) or <<v>>.  A datetime column carries its dtype (time unit, time  *)
(* zone) beside its values, because the engine's coalesce casts its        *)
(* arguments to their common supertype.                                    *)
(*                                                                         *)
(* An instant is held as [d, s, f]: whole days since 1970-01-01, second of *)
(* the day, and the sub-second count in the column's time unit.  It is the *)
(* mixed-radix form of the engine's 64-bit physical value                  *)
(* ((d * 86400 + s) * units-per-second + f), which does not fit TLC's      *)
(* 32-bit integers.                                                        *)
(***************************************************************************)
EXTENDS Integers, Sequences, FiniteSets, TLC

VARIABLES
    entry,            \* the function that was called
    pc,               \* position inside it
    formats,          \* the registry handed to parse_datetimes_multi_format
    df,               \* the input frame: rows [row_id, datetime_str]
    unix_parsed,      \* column "unix_parsed"
    normalized_dt,    \* column "_normalized_dt"
    parsed_datetime,  \* column "parsed_datetime"
    format_result,    \* ParseResult of parse_datetimes_multi_format
    datetime_utc,     \* column "datetime_utc" of the final frame
    result            \* ParseResult of comprehensive_parse

vars == << entry, pc, formats, df, unix_parsed, normalized_dt,
           parsed_datetime, format_result, datetime_utc, result >>

---------------------------------------------------------------------------
(* Nullable values and small helpers.                                      *)

None == << >>
Some(v) == << v >>
IsSome(o) == o # << >>
Get(o) == o[1]

Min(a, b) == IF a <= b THEN a ELSE b

Last(s) == s[Len(s)]
Front(s) == SubSeq(s, 1, Len(s) - 1)
Drop(s, n) == SubSeq(s, n + 1, Len(s))
Take(s, n) == SubSeq(s, 1, Min(n, Len(s)))

Reverse(s) == [i \in 1..Len(s) |-> s[Len(s) + 1 - i]]

StartsWith(s, p) == Len(s) >= Len(p) /\ SubSeq(s, 1, Len(p)) = p
EndsWith(s, p) == Len(s) >= Len(p) /\ SubSeq(s, Len(s) - Len(p) + 1, Len(s)) = p

---------------------------------------------------------------------------
(* Characters.                                                             *)

AsciiDigits == {"0", "1", "2", "3", "4", "5", "6", "7", "8", "9"}

\* A decimal digit outside ASCII (U+0663, ARABIC-INDIC DIGIT THREE): the
\* regex class \d of the engine is Unicode-aware and matches it, the integer
\* conversion does not accept it.
ArabicThree == "U+0663"
UnicodeDigits == AsciiDigits \cup {ArabicThree}

Newline == "\n"
Whitespace == {" ", "\t", Newline}

DigitVal(c) ==
    CASE c = "0" -> 0 [] c = "1" -> 1 [] c = "2" -> 2 [] c = "3" -> 3
      [] c = "4" -> 4 [] c = "5" -> 5 [] c = "6" -> 6 [] c = "7" -> 7
      [] c = "8" -> 8 [] c = "9" -> 9

UpperCase == <<"A","B","C","D","E","F","G","H","I","J","K","L","M",
               "N","O","P","Q","R","S","T","U","V","W","X","Y","Z">>
LowerCase == <<"a","b","c","d","e","f","g","h","i","j","k","l","m",
               "n","o","p","q","r","s","t","u","v","w","x","y","z">>

ToLowerChar(c) ==
    IF \E i \in 1..Len(UpperCase) : UpperCase[i] = c
    THEN LowerCase[CHOOSE i \in 1..Len(UpperCase) : UpperCase[i] = c]
    ELSE c

ToLower(s) == [i \in 1..Len(s) |-> ToLowerChar(s[i])]

\* The number of leading characters of s that are ASCII digits, at most max.
RECURSIVE CountDigits(_, _)
CountDigits(s, max) ==
    IF max = 0 \/ s = << >> \/ Head(s) \notin AsciiDigits THEN 0
    ELSE 1 + CountDigits(Tail(s), max - 1)

\* The value of a sequence of ASCII digits (short enough to fit an integer).
RECURSIVE DigitsValue(_)
DigitsValue(s) ==
    IF s = << >> THEN 0 ELSE DigitsValue(Front(s)) * 10 + DigitVal(Last(s))

\* str::trim_start: drop leading whitespace.
RECURSIVE TrimStart(_)
TrimStart(s) ==
    IF s # << >> /\ Head(s) \in Whitespace THEN TrimStart(Tail(s)) ELSE s

RECURSIVE TrimStartDigits(_)
TrimStartDigits(s) ==
    IF s # << >> /\ Head(s) \in AsciiDigits THEN TrimStartDigits(Tail(s)) ELSE s

RECURSIVE TrimStartColonSpace(_)
TrimStartColonSpace(s) ==
    IF s # << >> /\ (Head(s) = ":" \/ Head(s) \in Whitespace)
    THEN TrimStartColonSpace(Tail(s)) ELSE s

DATETIME_FORMATS ==
  << <<"%Y","-","%m","-","%d","T","%H",":","%M",":","%S","%.f","%:z">>,
     <<"%Y","-","%m","-","%d","T","%H",":","%M",":","%S","%:z">>,
     <<"%Y","-","%m","-","%d","T","%H",":","%M",":","%S","%.f","Z">>,
     <<"%Y","-","%m","-","%d","T","%H",":","%M",":","%S","Z">>,
     <<"%Y","-","%m","-","%d","T","%H",":","%M",":","%S","%.f">>,
     <<"%Y","-","%m","-","%d","T","%H",":","%M",":","%S">>,
     <<"%Y","-","%m","-","%d","T","%H",":","%M">>,
     <<"%Y","-","%m","-","%d"," ","%H",":","%M",":","%S","%:z">>,
     <<"%Y","-","%m","-","%d"," ","%H",":","%M",":","%S","%.f">>,
     <<"%Y","-","%m","-","%d"," ","%H",":","%M",":","%S">>,
     <<"%Y","-","%m","-","%d">>,
     <<"%m","/","%d","/","%Y"," ","%H",":","%M",":","%S">>,
     <<"%m","/","%d","/","%Y"," ","%I",":","%M",":","%S"," ","%p">>,
     <<"%m","/","%d","/","%Y"," ","%I",":","%M"," ","%p">>,
     <<"%m","/","%d","/","%Y">>,
     <<"%Y","/","%m","/","%d"," ","%H",":","%M",":","%S">>,
     <<"%Y","/","%m","/","%d">>,
     <<"%d","/","%m","/","%Y"," ","%H",":","%M",":","%S">>,
     <<"%d","/","%m","/","%Y">>,
     <<"%d","-","%m","-","%Y"," ","%H",":","%M",":","%S">>,
     <<"%d","-","%m","-","%Y">>,
     <<"%m","-","%d","-","%Y"," ","%H",":","%M",":","%S">>,
     <<"%m","-","%d","-","%Y">>,
     <<"%Y",".","%m",".","%d"," ","%H",":","%M",":","%S">>,
     <<"%Y",".","%m",".","%d">>,
     <<"%B"," ","%d",","," ","%Y"," ","%H",":","%M",":","%S">>,
     <<"%B"," ","%d",","," ","%Y">>,
     <<"%d"," ","%B"," ","%Y"," ","%H",":","%M",":","%S">>,
     <<"%d"," ","%B"," ","%Y">>,
     <<"%b"," ","%d",","," ","%Y">>,
     <<"%d"," ","%b"," ","%Y">>,
     <<"%d","-","%b","-","%Y"," ","%H",":","%M",":","%S">>,
     <<"%d","-","%b","-","%Y">>,
     <<"%Y","%m","%d","T","%H","%M","%S","Z">>,
     <<"%Y","%m","%d","T","%H","%M","%S","%:z">>,
     <<"%Y","%m","%d","%H","%M","%S">>,
     <<"%Y","%m","%d">>,
     <<"%Y","-","%m","-","%d"," ","%H",":","%M",":","%S","%z">>,
     <<"%Y","-","%m","-","%d"," ","%H",":","%M",":","%S"," ","%z">>,
     <<"%a",","," ","%d"," ","%b"," ","%Y"," ","%H",":","%M",":","%S","%:z">>,
     <<"%a",","," ","%d"," ","%b"," ","%Y"," ","%H",":","%M",":","%S"," ","%z">>,
     <<"%Y","-","%m","-","%d"," ","%I",":","%M"," ","%p">> >>

\* Index (1-based), format and source line of each registry entry:
\*   1  %Y-%m-%dT%H:%M:%S%.f%:z      (line 44)
\*   2  %Y-%m-%dT%H:%M:%S%:z         (line 45)
\*   3  %Y-%m-%dT%H:%M:%S%.fZ        (line 46)
\*   4  %Y-%m-%dT%H:%M:%SZ           (line 47)
\*   5  %Y-%m-%dT%H:%M:%S%.f         (line 50)
\*   6  %Y-%m-%dT%H:%M:%S            (line 51)
\*   7  %Y-%m-%dT%H:%M               (line 52)
\*   8  %Y-%m-%d %H:%M:%S%:z         (line 55)
\*   9  %Y-%m-%d %H:%M:%S%.f         (line 56)
\*  10  %Y-%m-%d %H:%M:%S            (line 57)
\*  11  %Y-%m-%d                     (line 58)
\*  12  %m/%d/%Y %H:%M:%S            (line 61)
\*  13  %m/%d/%Y %I:%M:%S %p         (line 62)
\*  14  %m/%d/%Y %I:%M %p            (line 63)
\*  15  %m/%d/%Y                     (line 64)
\*  16  %Y/%m/%d %H:%M:%S            (line 67)
\*  17  %Y/%m/%d                     (line 68)
\*  18  %d/%m/%Y %H:%M:%S            (line 71)
\*  19  %d/%m/%Y                     (line 72)
\*  20  %d-%m-%Y %H:%M:%S            (line 73)
\*  21  %d-%m-%Y                     (line 74)
\*  22  %m-%d-%Y %H:%M:%S            (line 77)
\*  23  %m-%d-%Y                     (line 78)
\*  24  %Y.%m.%d %H:%M:%S            (line 81)
\*  25  %Y.%m.%d                     (line 82)
\*  26  %B %d, %Y %H:%M:%S           (line 85)
\*  27  %B %d, %Y                    (line 86)
\*  28  %d %B %Y %H:%M:%S            (line 87)
\*  29  %d %B %Y                     (line 88)
\*  30  %b %d, %Y                    (line 89)
\*  31  %d %b %Y                     (line 90)
\*  32  %d-%b-%Y %H:%M:%S            (line 91)
\*  33  %d-%b-%Y                     (line 92)
\*  34  %Y%m%dT%H%M%SZ               (line 95)
\*  35  %Y%m%dT%H%M%S%:z             (line 96)
\*  36  %Y%m%d%H%M%S                 (line 97)
\*  37  %Y%m%d                       (line 98)
\*  38  %Y-%m-%d %H:%M:%S%z          (line 101)
\*  39  %Y-%m-%d %H:%M:%S %z         (line 102)
\*  40  %a, %d %b %Y %H:%M:%S%:z     (line 105)
\*  41  %a, %d %b %Y %H:%M:%S %z     (line 106)
\*  42  %Y-%m-%d %I:%M %p            (line 109)

NumericItems == {"%Y", "%m", "%d", "%H", "%I", "%M", "%S"}
OffsetItems == {"%z", "%:z"}

\* The engine parses a format as timezone-aware iff it holds an offset
\* specifier.
TzAware(fmt) == \E i \in 1..Len(fmt) : fmt[i] \in OffsetItems

---------------------------------------------------------------------------
(* The strptime parser behind str.to_datetime(format=fmt, strict=False,    *)
(* time_unit="us", time_zone="UTC") (lines 140-145): a left-to-right scan  *)
(* with no backtracking that fills a record of fields, then resolves the   *)
(* fields to a date and a time.  The engine (Polars) parses with the       *)
(* chrono library; its fixed-width fast path accepts nothing that chrono   *)
(* rejects and falls back to chrono, so chrono's rules decide.  The rules  *)
(* are those of chrono 0.4.32 and later, whose field setters check the     *)
(* range of a value as it is read.                                         *)

NewParsed(s) ==
    [ok |-> TRUE, rest |-> s,
     year |-> None, month |-> None, day |-> None,
     hour_div_12 |-> None, hour_mod_12 |-> None,
     minute |-> None, second |-> None, nanosecond |-> None,
     offset |-> None, weekday |-> None]

Failed(p) == [p EXCEPT !.ok = FALSE]
Advance(p, s) == [p EXCEPT !.rest = s]

\* A field is set once; setting it again to another value is an error.
SetField(p, name, v) ==
    IF p[name] = None \/ p[name] = Some(v)
    THEN [p EXCEPT ![name] = Some(v)]
    ELSE Failed(p)

NumWidth(item) == IF item = "%Y" THEN 4 ELSE 2

\* The setters check the range of the value as it is parsed.
SetNumeric(p, item, v) ==
    CASE item = "%Y" -> SetField(p, "year", v)
      [] item = "%m" -> IF v \in 1..12 THEN SetField(p, "month", v) ELSE Failed(p)
      [] item = "%d" -> IF v \in 1..31 THEN SetField(p, "day", v) ELSE Failed(p)
      [] item = "%H" -> IF v \in 0..23
                        THEN SetField(SetField(p, "hour_div_12", v \div 12),
                                      "hour_mod_12", v % 12)
                        ELSE Failed(p)
      [] item = "%I" -> IF v \in 1..12 THEN SetField(p, "hour_mod_12", v % 12)
                        ELSE Failed(p)
      [] item = "%M" -> IF v \in 0..59 THEN SetField(p, "minute", v) ELSE Failed(p)
      [] item = "%S" -> IF v \in 0..60 THEN SetField(p, "second", v) ELSE Failed(p)

\* A numeric item skips leading whitespace and takes between one digit and
\* its width, as many as there are.  The year is signed: after an explicit
\* sign it takes every digit that follows (more than nine digits are no
\* valid year, and are rejected here rather than when the date is resolved).
ParseNumeric(item, p) ==
    LET s == TrimStart(p.rest)
        hasSign == item = "%Y" /\ s # << >> /\ Head(s) \in {"+", "-"}
        body == IF hasSign THEN Tail(s) ELSE s
        n == CountDigits(body, IF hasSign THEN Len(body) ELSE NumWidth(item))
        v == DigitsValue(Take(body, n))
    IN  IF n = 0 \/ n > 9 THEN Failed(p)
        ELSE SetNumeric(Advance(p, Drop(body, n)), item,
                        IF hasSign /\ Head(s) = "-" THEN 0 - v ELSE v)

\* %.f: an optional fraction.  With a leading "." at least one digit must
\* follow; nine digits are kept (nanoseconds), further digits are skipped.
ParseFraction(p) ==
    LET s == p.rest
        body == Tail(s)
        n == CountDigits(body, 9)
        pad == [i \in 1..9 |-> IF i <= n THEN body[i] ELSE "0"]
    IN  IF s = << >> \/ Head(s) # "." THEN p
        ELSE IF n = 0 THEN Failed(p)
        ELSE SetField(Advance(p, TrimStartDigits(Drop(body, n))),
                      "nanosecond", DigitsValue(pad))

\* %z and %:z are parsed alike: optional whitespace, a sign, two digits of
\* hours, any colons or whitespace, two digits of minutes (00-59).
ParseOffset(p) ==
    LET s == TrimStart(p.rest)
        afterH == TrimStartColonSpace(Drop(s, 3))
        h == DigitsValue(SubSeq(s, 2, 3))
        m == DigitsValue(Take(afterH, 2))
        secs == h * 3600 + m * 60
    IN  IF s = << >> \/ Head(s) \notin {"+", "-"} THEN Failed(p)
        ELSE IF CountDigits(Tail(s), 2) < 2 THEN Failed(p)
        ELSE IF CountDigits(afterH, 2) < 2 \/ DigitVal(afterH[1]) > 5 THEN Failed(p)
        ELSE SetField(Advance(p, Drop(afterH, 2)), "offset",
                      IF Head(s) = "-" THEN 0 - secs ELSE secs)

SHORT_MONTHS ==
    << <<"j","a","n">>, <<"f","e","b">>, <<"m","a","r">>, <<"a","p","r">>,
       <<"m","a","y">>, <<"j","u","n">>, <<"j","u","l">>, <<"a","u","g">>,
       <<"s","e","p">>, <<"o","c","t">>, <<"n","o","v">>, <<"d","e","c">> >>

LONG_MONTH_SUFFIXES ==
    << <<"u","a","r","y">>, <<"r","u","a","r","y">>, <<"c","h">>,
       <<"i","l">>, <<>>, <<"e">>,
       <<"y">>, <<"u","s","t">>, <<"t","e","m","b","e","r">>,
       <<"o","b","e","r">>, <<"e","m","b","e","r">>, <<"e","m","b","e","r">> >>

SHORT_WEEKDAYS ==
    << <<"m","o","n">>, <<"t","u","e">>, <<"w","e","d">>, <<"t","h","u">>,
       <<"f","r","i">>, <<"s","a","t">>, <<"s","u","n">> >>

IndexOf(table, w) == CHOOSE i \in 1..Len(table) : table[i] = w

\* %b: a three-letter month name, in any case.
ParseShortMonth(p) ==
    LET w == ToLower(Take(p.rest, 3))
    IN  IF \E i \in 1..Len(SHORT_MONTHS) : SHORT_MONTHS[i] = w
        THEN SetField(Advance(p, Drop(p.rest, 3)), "month", IndexOf(SHORT_MONTHS, w))
        ELSE Failed(p)

\* %B: a three-letter month name, and the rest of the full name if it
\* follows.
ParseLongMonth(p) ==
    LET q == ParseShortMonth(p)
        suffix == LONG_MONTH_SUFFIXES[Get(q.month)]
    IN  IF ~q.ok THEN q
        ELSE IF ToLower(Take(q.rest, Len(suffix))) = suffix
        THEN Advance(q, Drop(q.rest, Len(suffix)))
        ELSE q

\* %a: a three-letter weekday name, in any case (Monday is 0).
ParseShortWeekday(p) ==
    LET w == ToLower(Take(p.rest, 3))
    IN  IF \E i \in 1..Len(SHORT_WEEKDAYS) : SHORT_WEEKDAYS[i] = w
        THEN SetField(Advance(p, Drop(p.rest, 3)), "weekday",
                      IndexOf(SHORT_WEEKDAYS, w) - 1)
        ELSE Failed(p)

\* %p: "AM" or "PM", in any case.
ParseAmPm(p) ==
    LET w == ToLower(Take(p.rest, 2))
    IN  IF w = <<"a", "m">> THEN SetField(Advance(p, Drop(p.rest, 2)), "hour_div_12", 0)
        ELSE IF w = <<"p", "m">>
        THEN SetField(Advance(p, Drop(p.rest, 2)), "hour_div_12", 1)
        ELSE Failed(p)

\* A literal character of the format must be the next character.
ParseLiteral(item, p) ==
    IF p.rest # << >> /\ Head(p.rest) = item THEN Advance(p, Tail(p.rest))
    ELSE Failed(p)

ParseItem(item, p) ==
    CASE item \in NumericItems -> ParseNumeric(item, p)
      [] item \in Whitespace -> Advance(p, TrimStart(p.rest))
      [] item = "%.f" -> ParseFraction(p)
      [] item \in OffsetItems -> ParseOffset(p)
      [] item = "%b" -> ParseShortMonth(p)
      [] item = "%B" -> ParseLongMonth(p)
      [] item = "%a" -> ParseShortWeekday(p)
      [] item = "%p" -> ParseAmPm(p)
      [] OTHER -> ParseLiteral(item, p)

\* The scan stops at the first item that fails; characters left over
\* after the last item are an error.
RECURSIVE ParseItems(_, _)
ParseItems(items, p) ==
    IF ~p.ok THEN p
    ELSE IF items = << >> THEN (IF p.rest = << >> THEN p ELSE Failed(p))
    ELSE ParseItems(Tail(items), ParseItem(Head(items), p))

IsLeapYear(y) == y % 4 = 0 /\ (y % 100 # 0 \/ y % 400 = 0)

DaysInMonth(y, m) ==
    IF m = 2 THEN (IF IsLeapYear(y) THEN 29 ELSE 28)
    ELSE IF m \in {4, 6, 9, 11} THEN 30 ELSE 31

\* Days from 1970-01-01 to the proleptic Gregorian date y-m-d.
DaysFromCivil(y, m, d) ==
    LET yy == IF m <= 2 THEN y - 1 ELSE y
        era == yy \div 400
        yoe == yy - era * 400
        mp == IF m > 2 THEN m - 3 ELSE m + 9
        doy == (153 * mp + 2) \div 5 + d - 1
        doe == yoe * 365 + yoe \div 4 - yoe \div 100 + doy
    IN  era * 146097 + doe - 719468

\* 1970-01-01 was a Thursday (Monday is 0).
WeekdayOf(days) == (days + 3) % 7

\* The date of the parsed fields, as days since the epoch: year, month and
\* day are all needed, the day must exist in the month, and a parsed
\* weekday must be the weekday of the date.
ToNaiveDate(p) ==
    IF IsSome(p.year) /\ IsSome(p.month) /\ IsSome(p.day)
    THEN LET y == Get(p.year)
             m == Get(p.month)
             d == Get(p.day)
             days == DaysFromCivil(y, m, d)
         IN  IF /\ y \in -262143..262142
                /\ d <= DaysInMonth(y, m)
                /\ (IsSome(p.weekday) => Get(p.weekday) = WeekdayOf(days))
             THEN Some(days) ELSE None
    ELSE None

\* The time of the parsed fields: the hour (both halves) and the minute are
\* needed, the second defaults to 0, a fraction needs a second.  Second 60
\* is a leap second, one second after second 59 in the timestamp.
ToNaiveTime(p) ==
    IF /\ IsSome(p.hour_div_12) /\ IsSome(p.hour_mod_12) /\ IsSome(p.minute)
       /\ (IsSome(p.nanosecond) => IsSome(p.second))
    THEN Some([s |-> (Get(p.hour_div_12) * 12 + Get(p.hour_mod_12)) * 3600
                     + Get(p.minute) * 60
                     + (IF IsSome(p.second) THEN Get(p.second) ELSE 0),
               nano |-> IF IsSome(p.nanosecond) THEN Get(p.nanosecond) ELSE 0])
    ELSE None

\* The instant `secs` seconds and `nano` nanoseconds after the start of day
\* `days`, as a microsecond timestamp (nanoseconds are truncated).
TimestampUs(days, secs, nano) ==
    [d |-> days + secs \div 86400, s |-> secs % 86400, f |-> nano \div 1000]

\* str.to_datetime on one value: null unless the format parses the whole
\* text to a valid date and time.  A timezone-aware format needs the date,
\* the time and an offset within a day, and yields the UTC instant; a naive
\* format is read as UTC, and yields midnight when it has a date and no time.
StrToDatetime(s, fmt) ==
    LET p == ParseItems(fmt, NewParsed(s))
        date == ToNaiveDate(p)
        time == ToNaiveTime(p)
    IN  IF ~p.ok \/ ~IsSome(date) THEN None
        ELSE IF TzAware(fmt)
        THEN IF /\ IsSome(time) /\ IsSome(p.offset)
                /\ Get(p.offset) \in -86399..86399
             THEN Some(TimestampUs(Get(date), Get(time).s - Get(p.offset),
                                   Get(time).nano))
             ELSE None
        ELSE IF IsSome(time)
        THEN Some(TimestampUs(Get(date), Get(time).s, Get(time).nano))
        ELSE Some(TimestampUs(Get(date), 0, 0))

---------------------------------------------------------------------------
(* The texts of create_test_dataframe (lines 156-230), in row order.       *)

test_data ==
  << <<"2","0","2","4","-","0","3","-","1","5","T","1","4",":","3","0",":","0","0","Z">>,
     <<"2","0","2","4","-","0","3","-","1","5","T","1","4",":","3","0",":","0","0",".","0","0","0","Z">>,
     <<"2","0","2","4","-","0","3","-","1","5","T","1","4",":","3","0",":","0","0",".","1","2","3","4","5","6","Z">>,
     <<"2","0","2","4","-","0","3","-","1","5","T","1","4",":","3","0",":","0","0","+","0","0",":","0","0">>,
     <<"2","0","2","4","-","0","3","-","1","5","T","1","4",":","3","0",":","0","0","-","0","5",":","0","0">>,
     <<"2","0","2","4","-","0","3","-","1","5","T","1","4",":","3","0",":","0","0","+","0","5",":","3","0">>,
     <<"2","0","2","4","-","0","3","-","1","5","T","1","4",":","3","0",":","0","0",".","1","2","3","+","0","0",":","0","0">>,
     <<"2","0","2","4","-","0","3","-","1","5","T","0","9",":","3","0",":","0","0","-","0","5",":","0","0">>,
     <<"2","0","2","4","-","0","3","-","1","5">>,
     <<"2","0","2","4","-","0","3","-","1","5","T","1","4",":","3","0",":","0","0">>,
     <<"2","0","2","4","-","0","3","-","1","5"," ","1","4",":","3","0",":","0","0">>,
     <<"2","0","2","4","-","0","3","-","1","5"," ","1","4",":","3","0",":","0","0",".","1","2","3">>,
     <<"2","0","2","4","-","0","3","-","1","5"," ","1","4",":","3","0",":","0","0",".","1","2","3","4","5","6">>,
     <<"2","0","2","4","-","0","3","-","1","5"," ","1","4",":","3","0",":","0","0"," ","U","T","C">>,
     <<"2","0","2","4","-","0","3","-","1","5"," ","1","4",":","3","0",":","0","0","+","0","0","0","0">>,
     <<"2","0","2","4","-","0","3","-","1","5"," ","1","4",":","3","0",":","0","0"," ","+","0","0","0","0">>,
     <<"0","3","/","1","5","/","2","0","2","4">>,
     <<"0","3","/","1","5","/","2","0","2","4"," ","1","4",":","3","0",":","0","0">>,
     <<"0","3","/","1","5","/","2","0","2","4"," ","0","2",":","3","0",":","0","0"," ","P","M">>,
     <<"3","/","1","5","/","2","0","2","4">>,
     <<"3","/","1","5","/","2","0","2","4"," ","2",":","3","0"," ","P","M">>,
     <<"2","0","2","4","/","0","3","/","1","5">>,
     <<"2","0","2","4","/","0","3","/","1","5"," ","1","4",":","3","0",":","0","0">>,
     <<"1","5","-","0","3","-","2","0","2","4">>,
     <<"1","5","/","0","3","/","2","0","2","4">>,
     <<"1","5","/","0","3","/","2","0","2","4"," ","1","4",":","3","0",":","0","0">>,
     <<"2","0","2","4","0","3","1","5">>,
     <<"2","0","2","4","0","3","1","5","1","4","3","0","0","0">>,
     <<"2","0","2","4","0","3","1","5","T","1","4","3","0","0","0","Z">>,
     <<"M","a","r","c","h"," ","1","5",","," ","2","0","2","4">>,
     <<"M","a","r","c","h"," ","1","5",","," ","2","0","2","4"," ","1","4",":","3","0",":","0","0">>,
     <<"1","5"," ","M","a","r","c","h"," ","2","0","2","4">>,
     <<"1","5"," ","M","a","r","c","h"," ","2","0","2","4"," ","1","4",":","3","0",":","0","0">>,
     <<"M","a","r"," ","1","5",","," ","2","0","2","4">>,
     <<"1","5"," ","M","a","r"," ","2","0","2","4">>,
     <<"1","5","-","M","a","r","-","2","0","2","4">>,
     <<"1","5","-","M","a","r","-","2","0","2","4"," ","1","4",":","3","0",":","0","0">>,
     <<"1","7","1","0","5","1","0","6","0","0">>,
     <<"1","7","1","0","5","1","0","6","0","0","0","0","0">>,
     <<"F","r","i",","," ","1","5"," ","M","a","r"," ","2","0","2","4"," ","1","4",":","3","0",":","0","0"," ","+","0","0","0","0">>,
     <<"F","r","i",","," ","1","5"," ","M","a","r"," ","2","0","2","4"," ","1","4",":","3","0",":","0","0"," ","G","M","T">>,
     <<"2","0","2","4",".","0","3",".","1","5">>,
     <<"2","0","2","4",".","0","3",".","1","5"," ","1","4",":","3","0",":","0","0">>,
     <<"0","3","-","1","5","-","2","0","2","4">>,
     <<"0","3","-","1","5","-","2","0","2","4"," ","1","4",":","3","0",":","0","0">>,
     <<"2","0","2","4","-","3","-","1","5">>,
     <<"2","0","2","4","-","0","3","-","1","5","T","1","4",":","3","0">>,
     <<"2","0","2","4","-","0","3","-","1","5"," ","2",":","3","0"," ","P","M">>,
     <<"n","o","t"," ","a"," ","d","a","t","e">>,
     <<"2","0","2","4","-","1","3","-","4","5">>,
     <<>>,
     <<"N","/","A">> >>
\*   1  '2024-03-15T14:30:00Z'             (line 158)
\*   2  '2024-03-15T14:30:00.000Z'         (line 159)
\*   3  '2024-03-15T14:30:00.123456Z'      (line 160)
\*   4  '2024-03-15T14:30:00+00:00'        (line 161)
\*   5  '2024-03-15T14:30:00-05:00'        (line 162)
\*   6  '2024-03-15T14:30:00+05:30'        (line 163)
\*   7  '2024-03-15T14:30:00.123+00:00'    (line 164)
\*   8  '2024-03-15T09:30:00-05:00'        (line 165)
\*   9  '2024-03-15'                       (line 166)
\*  10  '2024-03-15T14:30:00'              (line 167)
\*  11  '2024-03-15 14:30:00'              (line 170)
\*  12  '2024-03-15 14:30:00.123'          (line 171)
\*  13  '2024-03-15 14:30:00.123456'       (line 172)
\*  14  '2024-03-15 14:30:00 UTC'          (line 173)
\*  15  '2024-03-15 14:30:00+0000'         (line 174)
\*  16  '2024-03-15 14:30:00 +0000'        (line 175)
\*  17  '03/15/2024'                       (line 178)
\*  18  '03/15/2024 14:30:00'              (line 179)
\*  19  '03/15/2024 02:30:00 PM'           (line 180)
\*  20  '3/15/2024'                        (line 181)
\*  21  '3/15/2024 2:30 PM'                (line 182)
\*  22  '2024/03/15'                       (line 185)
\*  23  '2024/03/15 14:30:00'              (line 186)
\*  24  '15-03-2024'                       (line 187)
\*  25  '15/03/2024'                       (line 188)
\*  26  '15/03/2024 14:30:00'              (line 189)
\*  27  '20240315'                         (line 192)
\*  28  '20240315143000'                   (line 193)
\*  29  '20240315T143000Z'                 (line 194)
\*  30  'March 15, 2024'                   (line 197)
\*  31  'March 15, 2024 14:30:00'          (line 198)
\*  32  '15 March 2024'                    (line 199)
\*  33  '15 March 2024 14:30:00'           (line 200)
\*  34  'Mar 15, 2024'                     (line 201)
\*  35  '15 Mar 2024'                      (line 202)
\*  36  '15-Mar-2024'                      (line 203)
\*  37  '15-Mar-2024 14:30:00'             (line 204)
\*  38  '1710510600'                       (line 207)
\*  39  '1710510600000'                    (line 208)
\*  40  'Fri, 15 Mar 2024 14:30:00 +0000'  (line 211)
\*  41  'Fri, 15 Mar 2024 14:30:00 GMT'    (line 212)
\*  42  '2024.03.15'                       (line 215)
\*  43  '2024.03.15 14:30:00'              (line 216)
\*  44  '03-15-2024'                       (line 217)
\*  45  '03-15-2024 14:30:00'              (line 218)
\*  46  '2024-3-15'                        (line 221)
\*  47  '2024-03-15T14:30'                 (line 222)
\*  48  '2024-03-15 2:30 PM'               (line 223)
\*  49  'not a date'                       (line 226)
\*  50  '2024-13-45'                       (line 227)
\*  51  ''                                 (line 228)
\*  52  'N/A'                              (line 229)

---------------------------------------------------------------------------
(* The column operations of the engine that the pipeline uses.  A datetime *)
(* column is [tu, tz, v]: time unit, time zone ("" for a naive column) and *)
(* the sequence of its nullable values.                                    *)

\* Digits of the sub-second count of a time unit.
SubDigits(tu) == CASE tu = "ms" -> 3 [] tu = "us" -> 6 [] tu = "ns" -> 9

RECURSIVE Pow10(_)
Pow10(n) == IF n = 0 THEN 1 ELSE 10 * Pow10(n - 1)

Zeros(n) == [i \in 1..n |-> "0"]

RECURSIVE StripLeadingZeros(_)
StripLeadingZeros(s) ==
    IF s # << >> /\ Head(s) = "0" THEN StripLeadingZeros(Tail(s)) ELSE s

\* The digit counts of the two epoch literals (lines 311 and 317).
UNIX_SECONDS_DIGITS == 10
UNIX_MILLIS_DIGITS == 13

\* A faulty variant of StrContainsDigits: the pattern without its "$", which
\* matches a text that starts with n digits.
StrContainsDigits_Unanchored(s, n) ==
    Len(s) >= n /\ \A i \in 1..n : s[i] \in UnicodeDigits

\* str.contains(r"^\d{n}$"): the whole text is n decimal digits.  The class
\* \d is Unicode-aware, and "$" matches at the very end of the text only.
StrContainsDigits(s, n) ==
    Len(s) = n /\ \A i \in 1..Len(s) : s[i] \in UnicodeDigits

\* str.to_integer(strict=False): the 64-bit integer a text of ASCII digits
\* denotes, as its decimal digits without leading zeros (<<>> is zero), and
\* null for any other text.  Eighteen digits always fit 64 bits; a signed
\* text never passes the digit guards of the caller and is left null here.
StrToInteger(s) ==
    IF /\ s # << >>
       /\ \A i \in 1..Len(s) : s[i] \in AsciiDigits
       /\ Len(StripLeadingZeros(s)) <= 18
    THEN Some(StripLeadingZeros(s))
    ELSE None

\* Quotient and remainder of a non-negative integer given by its digits.
RECURSIVE LongDiv(_, _)
LongDiv(digits, m) ==
    IF digits = << >> THEN [q |-> 0, r |-> 0]
    ELSE LET p == LongDiv(Front(digits), m)
             cur == p.r * 10 + DigitVal(Last(digits))
         IN  [q |-> p.q * 10 + cur \div m, r |-> cur % m]

\* The instant whose physical value in time unit tu is the integer `phys`.
PhysicalToInstant(phys, tu) ==
    LET k == SubDigits(tu)
        n == Len(phys)
        secs == LongDiv(Take(phys, IF n > k THEN n - k ELSE 0), 86400)
    IN  [d |-> secs.q, s |-> secs.r,
         f |-> DigitsValue(Drop(phys, IF n > k THEN n - k ELSE 0))]

\* A faulty variant of FromEpoch: seconds multiplied by 1_000, not 1_000_000.
FromEpoch_SecondsTimesThousand(ints, time_unit) ==
    [tu |-> IF time_unit = "s" THEN "us" ELSE time_unit, tz |-> "",
     v |-> [i \in 1..Len(ints) |->
              IF IsSome(ints[i])
              THEN Some(PhysicalToInstant(
                            IF time_unit = "s"
                            THEN StripLeadingZeros(Get(ints[i]) \o Zeros(3))
                            ELSE Get(ints[i]),
                            IF time_unit = "s" THEN "us" ELSE time_unit))
              ELSE None]]

\* pl.from_epoch(column, time_unit): seconds are multiplied by 1_000_000
\* and cast to Datetime("us"); milliseconds are cast to Datetime("ms").
FromEpoch(ints, time_unit) ==
    IF time_unit = "s"
    THEN [tu |-> "us", tz |-> "",
          v |-> [i \in 1..Len(ints) |->
                   IF IsSome(ints[i])
                   THEN Some(PhysicalToInstant(
                                 StripLeadingZeros(Get(ints[i]) \o Zeros(6)), "us"))
                   ELSE None]]
    ELSE [tu |-> time_unit, tz |-> "",
          v |-> [i \in 1..Len(ints) |->
                   IF IsSome(ints[i])
                   THEN Some(PhysicalToInstant(Get(ints[i]), time_unit))
                   ELSE None]]

\* The common time unit of two datetime dtypes: the coarser of the two.
GetTimeUnits(tu_l, tu_r) ==
    CASE tu_l = "ns" /\ tu_r = "us" -> "us"
      [] tu_r = "ms" -> "ms"
      [] OTHER -> tu_l

\* The supertype of a list of datetime columns (their time zones are equal
\* wherever the pipeline coalesces).
RECURSIVE SupertypeUnit(_)
SupertypeUnit(cols) ==
    IF Len(cols) = 1 THEN cols[1].tu
    ELSE GetTimeUnits(SupertypeUnit(Front(cols)), Last(cols).tu)

\* A cast between time units scales the sub-second count; a cast to a
\* coarser unit drops the finer digits.
CastInstant(x, from, to) ==
    IF SubDigits(to) >= SubDigits(from)
    THEN [x EXCEPT !.f = x.f * Pow10(SubDigits(to) - SubDigits(from))]
    ELSE [x EXCEPT !.f = x.f \div Pow10(SubDigits(from) - SubDigits(to))]

\* The value of row i in the first of the columns c, c + 1, ... that is not
\* null there, cast to the time unit tu.
RECURSIVE FirstNonNull(_, _, _, _)
FirstNonNull(cols, i, c, tu) ==
    IF c > Len(cols) THEN None
    ELSE LET x == cols[c].v[i]
         IN  IF IsSome(x) THEN Some(CastInstant(Get(x), cols[c].tu, tu))
             ELSE FirstNonNull(cols, i, c + 1, tu)

\* A faulty variant of Coalesce: each row takes the value of the last column
\* that is not null there.
Coalesce_LastWins(cols) ==
    LET tu == SupertypeUnit(cols)
    IN  [tu |-> tu, tz |-> cols[1].tz,
         v |-> [i \in 1..Len(cols[1].v) |-> FirstNonNull(Reverse(cols), i, 1, tu)]]

\* pl.coalesce(*cols): the columns are cast to their supertype, then each
\* row takes the value of the first column that is not null there.
Coalesce(cols) ==
    LET tu == SupertypeUnit(cols)
    IN  [tu |-> tu, tz |-> cols[1].tz,
         v |-> [i \in 1..Len(cols[1].v) |-> FirstNonNull(cols, i, 1, tu)]]

\* A faulty variant of StrReplaceAtEnd: the pattern without its "$", whose
\* first match is the first occurrence anywhere in the text.
StrReplaceAtEnd_Anywhere(s, pattern, value) ==
    LET at == {k \in 1..(Len(s) - Len(pattern) + 1) :
                 SubSeq(s, k, k + Len(pattern) - 1) = pattern}
        first == CHOOSE k \in at : \A j \in at : k <= j
    IN  IF at = {} THEN s
        ELSE Take(s, first - 1) \o value \o Drop(s, first - 1 + Len(pattern))

\* str.replace(pattern + "$", value): the first match of a pattern anchored
\* at the end of the text is a suffix of the text.
StrReplaceAtEnd(s, pattern, value) ==
    IF EndsWith(s, pattern) THEN Take(s, Len(s) - Len(pattern)) \o value ELSE s

\* The three chained replacements of lines 261-264.
NormalizeText(s) ==
    StrReplaceAtEnd(
        StrReplaceAtEnd(
            StrReplaceAtEnd(s, <<" ", "U", "T", "C">>, <<"+", "0", "0", ":", "0", "0">>),
            <<" ", "G", "M", "T">>, <<"+", "0", "0", ":", "0", "0">>),
        <<"Z">>, <<"+", "0", "0", ":", "0", "0">>)

\* A faulty variant of BuildDatetimeParsers: the columns in the reverse of
\* the registry order.
BuildDatetimeParsers_Reversed(texts, fmts) ==
    [k \in 1..Len(fmts) |->
       [tu |-> "us", tz |-> "UTC",
        v |-> [i \in 1..Len(texts) |->
                 StrToDatetime(texts[i], fmts[Len(fmts) + 1 - k])]]]

\* _build_datetime_parsers: one parsed column per format, in registry order.
BuildDatetimeParsers(texts, fmts) ==
    [k \in 1..Len(fmts) |->
       [tu |-> "us", tz |-> "UTC",
        v |-> [i \in 1..Len(texts) |-> StrToDatetime(texts[i], fmts[k])]]]

\* A faulty variant of NullRows: it reports the position of the row in the
\* frame, counted from 1, as its row_id.
RECURSIVE NullRows_Position(_, _)
NullRows_Position(frame, col) ==
    IF frame = << >> THEN << >>
    ELSE IF IsSome(Last(col))
    THEN NullRows_Position(Front(frame), Front(col))
    ELSE Append(NullRows_Position(Front(frame), Front(col)),
                [row_id |-> Len(frame),
                 datetime_str |-> Last(frame).datetime_str])

\* frame.filter(column.is_null()).select(["row_id", col]), in row order.
RECURSIVE NullRows(_, _)
NullRows(frame, col) ==
    IF frame = << >> THEN << >>
    ELSE IF IsSome(Last(col))
    THEN NullRows(Front(frame), Front(col))
    ELSE Append(NullRows(Front(frame), Front(col)),
                [row_id |-> Last(frame).row_id,
                 datetime_str |-> Last(frame).datetime_str])

\* A faulty variant of CountNotNull: it counts the distinct values.
CountNotNull_Distinct(col) ==
    Cardinality({col[i] : i \in {j \in 1..Len(col) : IsSome(col[j])}})

\* frame.filter(...).height.
CountNull(col) == Cardinality({i \in 1..Len(col) : ~IsSome(col[i])})
CountNotNull(col) == Cardinality({i \in 1..Len(col) : IsSome(col[i])})

\* The column "unix_parsed" of parse_with_unix_timestamps (lines 308-335):
\* the integer of a text of 10 digits read as seconds, that of a text of 13
\* digits read as milliseconds, and the first of the two that is not null.
UnixParsed(texts) ==
    LET unix_s == [i \in 1..Len(texts) |->
                     IF StrContainsDigits(texts[i], UNIX_SECONDS_DIGITS)
                     THEN StrToInteger(texts[i]) ELSE None]
        unix_ms == [i \in 1..Len(texts) |->
                      IF StrContainsDigits(texts[i], UNIX_MILLIS_DIGITS)
                      THEN StrToInteger(texts[i]) ELSE None]
    IN  Coalesce(<< FromEpoch(unix_s, "s"), FromEpoch(unix_ms, "ms") >>)

\* The column "parsed_datetime" of parse_datetimes_multi_format (lines
\* 269-270): the coalesced parsers of the registry.
ParsedDatetime(texts, fmts) == Coalesce(BuildDatetimeParsers(texts, fmts))

\* when(is_not_null).then(dt.replace_time_zone("UTC")).otherwise(None)
\* (lines 352-354): the values stay, the column is tagged UTC.
ReplaceTimeZoneUtc(col) == [col EXCEPT !.tz = "UTC"]

NoColumn == [tu |-> "", tz |-> "", v |-> << >>]
NoResult == [unparseable |-> << >>, success_count |-> 0, failure_count |-> 0]

---------------------------------------------------------------------------
(* The pipeline.  comprehensive_parse (lines 340-386) runs its statements  *)
(* in order; pc names the statement to run next.                           *)

Texts(frame) == [i \in 1..Len(frame) |-> frame[i].datetime_str]

\* parse_with_unix_timestamps (lines 295-337), called at line 348.
ParseWithUnixTimestamps ==
    /\ pc = "parse_unix"
    /\ unix_parsed' = UnixParsed(Texts(df))
    /\ pc' = "replace_tz"
    /\ UNCHANGED << entry, formats, df, normalized_dt, parsed_datetime,
                    format_result, datetime_utc, result >>

\* Lines 351-356: tag the non-null epoch values as UTC.
ReplaceTimeZone ==
    /\ pc = "replace_tz"
    /\ unix_parsed' = ReplaceTimeZoneUtc(unix_parsed)
    /\ pc' = "normalize"
    /\ UNCHANGED << entry, formats, df, normalized_dt, parsed_datetime,
                    format_result, datetime_utc, result >>

\* parse_datetimes_multi_format, lines 258-266: the normalised column.
Normalize ==
    /\ pc = "normalize"
    /\ normalized_dt' = [i \in 1..Len(df) |-> NormalizeText(df[i].datetime_str)]
    /\ pc' = "coalesce_formats"
    /\ UNCHANGED << entry, formats, df, unix_parsed, parsed_datetime,
                    format_result, datetime_utc, result >>

\* parse_datetimes_multi_format, lines 268-292: coalesce the parsers, and
\* report the rows that no format parsed.
CoalesceFormats ==
    /\ pc = "coalesce_formats"
    /\ LET parsed == ParsedDatetime(normalized_dt, formats)
           res == [unparseable |-> NullRows(df, parsed.v),
                   success_count |-> CountNotNull(parsed.v),
                   failure_count |-> CountNull(parsed.v)]
       IN  /\ parsed_datetime' = parsed
           /\ datetime_utc' = parsed
           /\ format_result' = res
           /\ IF entry = "parse_datetimes_multi_format"
              THEN pc' = "done" /\ result' = res
              ELSE pc' = "combine" /\ result' = result
    /\ UNCHANGED << entry, formats, df, unix_parsed, normalized_dt >>

\* Lines 361-368: prefer the format-based value, fall back to the epoch.
Combine ==
    /\ pc = "combine"
    /\ datetime_utc' = Coalesce(<< parsed_datetime, unix_parsed >>)
    /\ pc' = "recalculate"
    /\ UNCHANGED << entry, formats, df, unix_parsed, normalized_dt,
                    parsed_datetime, format_result, result >>

\* Lines 370-386: the unparseable rows and the counts of the final frame.
Recalculate ==
    /\ pc = "recalculate"
    /\ result' = [unparseable |-> NullRows(df, datetime_utc.v),
                  success_count |-> CountNotNull(datetime_utc.v),
                  failure_count |-> CountNull(datetime_utc.v)]
    /\ pc' = "done"
    /\ UNCHANGED << entry, formats, df, unix_parsed, normalized_dt,
                    parsed_datetime, format_result, datetime_utc >>

Next ==
    \/ ParseWithUnixTimestamps
    \/ ReplaceTimeZone
    \/ Normalize
    \/ CoalesceFormats
    \/ Combine
    \/ Recalculate


---------------------------------------------------------------------------
(* The inputs of the checks.                                               *)

\* The frame of create_test_dataframe (lines 233-236) over given texts.
MakeFrame(texts) ==
    [i \in 1..Len(texts) |-> [row_id |-> i - 1, datetime_str |-> texts[i]]]

\* Rows of a batch, at most.
MaxRows == 2

\* Characters of a generated text, at most.
MaxLen == 14

\* Pieces of a generated suffix text, at most.
MaxPieces == 3

\* Further texts: digit strings around the epoch lengths, timezone
\* suffixes, dates and times that do not exist, ambiguous day/month orders.
ExtraTexts ==
    { <<"2","0","2","4","0","3","1","5","1","4","3","0","5">>,
      <<"9","9","9","9","9","9","9","9","9","9">>,
      <<"0","0","0","0","0","0","0","0","0","0">>,
      <<"0","0","0","0","0","0","0","0","8","6","4","0","0">>,
      <<"4","1","0","2","4","4","4","8","0","0">>,
      <<"1","7","1","0","5","1","0","6","0","0","Z">>,
      <<"1","7","1","0","5","1","0","6","0","0"," ","U","T","C">>,
      <<"1","7","1","0","5","1","0","6","0","0",Newline>>,
      <<"1","7","1","0","5","1","0","6","0",ArabicThree>>,
      <<"+","1","7","1","0","5","1","0","6","0">>,
      <<"1","7","1","0","5","1","0","6","0","0","0">>,
      <<"2","0","2","4","-","0","3","-","1","5"," ","1","4",":","3","0",":","0","0"," ","G","M","T">>,
      <<"2","0","2","4","-","0","3","-","1","5"," ","1","4",":","3","0",":","0","0"," ","U","T","C"," ","t","r","a","i","l","i","n","g">>,
      <<"2","0","2","4","-","0","3","-","1","5","T","1","4",":","3","0",":","0","0",".","1","2","3","4","5","6","7","8","9","1","2","3","Z">>,
      <<"2","0","2","4","-","0","3","-","1","5"," ","2","5",":","0","0",":","0","0">>,
      <<"2","0","2","4","-","0","3","-","1","5"," ","1","4",":","3","0",":","6","0">>,
      <<"2","0","2","3","-","0","2","-","2","9">>,
      <<"2","0","2","4","-","0","2","-","2","9">>,
      <<"2","0","2","4","-","0","3","-","1","5"," ","1","4",":","3","0",":","0","0",".","9","9","9","9","9","9">>,
      <<"1","9","6","9","-","1","2","-","3","1"," ","2","3",":","5","9",":","5","9",".","1","2","3","4","5","6">>,
      <<"2","0","2","4","-","0","3","-","1","5","T","2","3",":","3","0",":","0","0","-","0","5",":","0","0">>,
      <<"2","0","2","4","-","0","3","-","1","5","T","1","4",":","3","0",":","0","0","+","2","4",":","0","0">>,
      <<"0","3","/","0","4","/","2","0","2","4">>,
      <<"1","3","/","0","4","/","2","0","2","4">>,
      <<"0","4","-","0","3","-","2","0","2","4">>,
      <<"0","4","-","1","3","-","2","0","2","4">>,
      <<"0","3","/","0","4","/","2","0","2","4"," ","1","4",":","3","0",":","0","0">>,
      <<"S","a","t",","," ","1","5"," ","M","a","r"," ","2","0","2","4"," ","1","4",":","3","0",":","0","0"," ","+","0","0","0","0">>,
      <<"M","A","R","C","H"," ","1","5",","," ","2","0","2","4">>,
      <<" ","2","0","2","4","-","0","3","-","1","5">>,
      <<"2","0","2","4","-","0","3","-","1","5"," ">>,
      <<"2","0","2","4","-","0","3","-","1","5","1","4",":","3","0",":","0","0">>,
      <<"+","2","0","2","4","-","0","3","-","1","5">>,
      <<"-","0","0","0","1","-","0","3","-","1","5">>,
      <<"2","0","2","4","-","0","3","-","1","5"," ","1","4",":","3","0",":","0","0",".">>,
      <<"2","0","2","4","-","0","3","-","1","5"," ","1","4",":","3","0",":","0","0","+","0","5","3","0">> }

\*  '2024031514305'                         
\*  '9999999999'                            
\*  '0000000000'                            
\*  '0000000086400'                         
\*  '4102444800'                            
\*  '1710510600Z'                           
\*  '1710510600 UTC'                        
\*  '1710510600\n'                          
\*  '171051060٣'                            
\*  '+171051060'                            
\*  '17105106000'                           
\*  '2024-03-15 14:30:00 GMT'               
\*  '2024-03-15 14:30:00 UTC trailing'      
\*  '2024-03-15T14:30:00.123456789123Z'     
\*  '2024-03-15 25:00:00'                   
\*  '2024-03-15 14:30:60'                   
\*  '2023-02-29'                            
\*  '2024-02-29'                            
\*  '2024-03-15 14:30:00.999999'            
\*  '1969-12-31 23:59:59.123456'            
\*  '2024-03-15T23:30:00-05:00'             
\*  '2024-03-15T14:30:00+24:00'             
\*  '03/04/2024'                            
\*  '13/04/2024'                            
\*  '04-03-2024'                            
\*  '04-13-2024'                            
\*  '03/04/2024 14:30:00'                   
\*  'Sat, 15 Mar 2024 14:30:00 +0000'       
\*  'MARCH 15, 2024'                        
\*  ' 2024-03-15'                           
\*  '2024-03-15 '                           
\*  '2024-03-1514:30:00'                    
\*  '+2024-03-15'                           
\*  '-0001-03-15'                           
\*  '2024-03-15 14:30:00.'                  
\*  '2024-03-15 14:30:00+0530'              

Run(c, n) == [i \in 1..n |-> c]

EpochChars == {"0", "1", "9", "Z", " ", ArabicThree, Newline}

\* Texts of at most MaxLen characters made of two runs of one character.
TwoRunTexts ==
    UNION { { Run(a, i) \o Run(b, j) : a \in EpochChars, b \in EpochChars,
                                       j \in 0..(MaxLen - i) } : i \in 0..MaxLen }

SuffixPieces ==
    { <<" ", "U", "T", "C">>, <<" ", "G", "M", "T">>, <<"Z">>, <<"U", "T", "C">>,
      <<"2","0","2","4","-","0","3","-","1","5"," ","1","4",":","3","0",":","0","0">> }

RECURSIVE Concat(_)
Concat(pieces) == IF pieces = << >> THEN << >> ELSE Head(pieces) \o Concat(Tail(pieces))

\* Texts made of at most MaxPieces pieces.
SuffixTexts ==
    UNION { { Concat(ps) : ps \in [1..n -> SuffixPieces] } : n \in 0..MaxPieces }

TestTexts == {test_data[i] : i \in 1..Len(test_data)}

RowTexts == TestTexts \cup ExtraTexts \cup TwoRunTexts \cup SuffixTexts

\* The texts of the batches: an ISO text with a Z, one with six fractional
\* digits, a US date, both epoch literals, 13 digits that a compact format
\* reads as well, and three texts that nothing resolves.
BatchTexts ==
    { test_data[1], test_data[13], test_data[17], test_data[38], test_data[39],
      <<"2","0","2","4","0","3","1","5","1","4","3","0","5">>,
      test_data[49], test_data[50], test_data[51] }

\* Registries handed to parse_datetimes_multi_format: the default one, the
\* default one reversed, and every ordered pair of some formats that read
\* the same texts differently.
PairFormats ==
    { DATETIME_FORMATS[9], DATETIME_FORMATS[10], DATETIME_FORMATS[11],
      DATETIME_FORMATS[15], DATETIME_FORMATS[19], DATETIME_FORMATS[21],
      DATETIME_FORMATS[23], DATETIME_FORMATS[36], DATETIME_FORMATS[37] }

Registries ==
    {DATETIME_FORMATS, Reverse(DATETIME_FORMATS)}
        \cup { <<f, g>> : f \in PairFormats, g \in PairFormats }

InitWith(e, fmts, frame) ==
    /\ entry = e
    /\ pc = IF e = "comprehensive_parse" THEN "parse_unix" ELSE "normalize"
    /\ formats = fmts
    /\ df = frame
    /\ unix_parsed = NoColumn
    /\ normalized_dt = << >>
    /\ parsed_datetime = NoColumn
    /\ format_result = NoResult
    /\ datetime_utc = NoColumn
    /\ result = NoResult

\* comprehensive_parse on a batch.
Init ==
    \E n \in 0..MaxRows : \E texts \in [1..n -> BatchTexts] :
        InitWith("comprehensive_parse", DATETIME_FORMATS, MakeFrame(texts))

Spec == Init /\ [][Next]_vars

\* comprehensive_parse on a frame of one row.
InitRow ==
    \E text \in RowTexts :
        InitWith("comprehensive_parse", DATETIME_FORMATS, MakeFrame(<<text>>))

SpecRow == InitRow /\ [][Next]_vars

\* parse_datetimes_multi_format on a frame of one row, with a registry.
MatcherNext == Normalize \/ CoalesceFormats

InitMatcher ==
    \E text \in TestTexts \cup ExtraTexts : \E fmts \in Registries :
        InitWith("parse_datetimes_multi_format", fmts, MakeFrame(<<text>>))

SpecMatcher == InitMatcher /\ [][MatcherNext]_vars

---------------------------------------------------------------------------
(* The claims.                                                             *)

\* comprehensive_parse has returned.
Done == entry = "comprehensive_parse" /\ pc = "done"

Rows == 1..Len(df)

\* Two values of columns with time units tux and tuy are the same instant.
SameInstant(x, tux, y, tuy) ==
    /\ x.d = y.d
    /\ x.s = y.s
    /\ x.f * Pow10(9 - SubDigits(tux)) = y.f * Pow10(9 - SubDigits(tuy))

\* A nullable value of one column equals a nullable value of another.
SameValue(a, tua, b, tub) ==
    IF IsSome(a) /\ IsSome(b) THEN SameInstant(Get(a), tua, Get(b), tub)
    ELSE a = b

\* C1: for every row of the batch, the final timestamp is the value of the
\* format matcher when that is present (whatever the epoch detector gave),
\* else the value of the epoch detector when that is present, else absent.
C1_FinalIsFormatElseEpoch ==
    Done =>
        \A i \in Rows :
            IF IsSome(parsed_datetime.v[i])
            THEN SameValue(datetime_utc.v[i], datetime_utc.tu,
                           parsed_datetime.v[i], parsed_datetime.tu)
            ELSE SameValue(datetime_utc.v[i], datetime_utc.tu,
                           unix_parsed.v[i], unix_parsed.tu)

\* C2: success_count + failure_count is the number of rows; failure_count
\* is the size of unparseable; every row_id is either resolved (its final
\* timestamp is present) or listed in unparseable, once, and never both.
C2_CountsPartitionTheBatch ==
    Done =>
        /\ result.success_count + result.failure_count = Len(df)
        /\ result.failure_count = Len(result.unparseable)
        /\ \A i \in Rows :
             LET listed == {k \in 1..Len(result.unparseable) :
                              result.unparseable[k].row_id = df[i].row_id}
             IN  IF IsSome(datetime_utc.v[i]) THEN listed = {}
                 ELSE Cardinality(listed) = 1
        /\ result.success_count =
               Cardinality({i \in Rows : IsSome(datetime_utc.v[i])})

\* A batch with the same text in both rows, neither resolved, has returned.
C2_Witness ==
    /\ Done
    /\ Len(df) = 2
    /\ df[1].datetime_str = df[2].datetime_str
    /\ result.failure_count = 2

\* parse_datetimes_multi_format has returned.
MatcherDone == entry = "parse_datetimes_multi_format" /\ pc = "done"

\* The formats of the registry in use that parse the text s.
Matching(s) == {k \in 1..Len(formats) : IsSome(StrToDatetime(s, formats[k]))}

Lowest(S) == CHOOSE k \in S : \A j \in S : k <= j

\* The format consumes the whole text, and the fields it reads are a date
\* that exists and a time of the day.
ConsumesAndIsValid(s, fmt) ==
    LET p == ParseItems(fmt, NewParsed(s))
    IN  /\ p.ok
        /\ p.rest = << >>
        /\ IsSome(p.year) /\ IsSome(p.month) /\ IsSome(p.day)
        /\ Get(p.month) \in 1..12
        /\ Get(p.day) \in 1..DaysInMonth(Get(p.year), Get(p.month))
        /\ IsSome(p.hour_mod_12) => Get(p.hour_mod_12) \in 0..11
        /\ IsSome(p.minute) => Get(p.minute) \in 0..59
        /\ IsSome(p.second) => Get(p.second) \in 0..60

\* C3: for every registry and every normalised text, the result of the
\* format matcher is the timestamp of the lowest-index format that consumes
\* the whole text and yields a valid date and time; formats that fail are
\* skipped, a later format that also matches changes nothing, and the result
\* is absent when no format succeeds.
C3_FirstMatchingFormatWins ==
    MatcherDone =>
        \A i \in Rows :
            LET s == normalized_dt[i]
                ok == Matching(s)
            IN  /\ \A k \in ok : ConsumesAndIsValid(s, formats[k])
                /\ ok = {} => parsed_datetime.v[i] = None
                /\ ok # {} =>
                       parsed_datetime.v[i] = StrToDatetime(s, formats[Lowest(ok)])

\* Two formats of the registry parse the text to different instants, and
\* the result is that of the earlier one.
C3_Witness ==
    /\ MatcherDone
    /\ \E k1 \in Matching(normalized_dt[1]) : \E k2 \in Matching(normalized_dt[1]) :
          /\ k1 < k2
          /\ StrToDatetime(normalized_dt[1], formats[k1])
                 # StrToDatetime(normalized_dt[1], formats[k2])
          /\ parsed_datetime.v[1] = StrToDatetime(normalized_dt[1], formats[k1])

\* parse_with_unix_timestamps has returned.
EpochDone == entry = "comprehensive_parse" /\ pc # "parse_unix"

AsciiDigitText(s, n) == Len(s) = n /\ \A k \in 1..Len(s) : s[k] \in AsciiDigits

\* C4: the epoch detector yields a candidate for the raw text iff the whole
\* text is exactly 10 ASCII digits or exactly 13 ASCII digits.
C4_EpochCandidateIffTenOrThirteenDigits ==
    EpochDone =>
        \A i \in Rows :
            IsSome(unix_parsed.v[i]) <=>
                \/ AsciiDigitText(df[i].datetime_str, 10)
                \/ AsciiDigitText(df[i].datetime_str, 13)

\* A text of 13 ASCII digits has a candidate.
C4_Witness ==
    /\ EpochDone
    /\ Len(df) = 1
    /\ Len(df[1].datetime_str) = 13
    /\ IsSome(unix_parsed.v[1])

\* A non-negative integer below 10^10 as two limbs in base 10^5, from its
\* decimal digits.
DigitLimbs(s) ==
    LET n == IF Len(s) > 5 THEN Len(s) - 5 ELSE 0
    IN  [hi |-> DigitsValue(Take(s, n)), lo |-> DigitsValue(Drop(s, n))]

\* The whole seconds since the epoch of an instant (x.d * 86400 + x.s), as
\* two limbs in base 10^5.
SecondLimbs(x) ==
    LET low == (x.d % 1000) * 86400 + x.s
    IN  [hi |-> (x.d \div 1000) * 864 + low \div 100000, lo |-> low % 100000]

\* The microseconds within the second of a value of a column of unit tu.
Microseconds(x, tu) ==
    IF SubDigits(tu) <= 6 THEN x.f * Pow10(6 - SubDigits(tu))
    ELSE x.f \div Pow10(SubDigits(tu) - 6)

\* C5: for every text S of 10 ASCII digits the detector's timestamp has
\* whole seconds since the epoch equal to the integer S and no fraction; for
\* every text S of 13 ASCII digits its milliseconds since the epoch equal the
\* integer S, the microseconds being the millisecond remainder times 1000;
\* such a text always has a timestamp.
C5_EpochValueIsTheInteger ==
    EpochDone =>
        \A i \in Rows :
            LET S == df[i].datetime_str
                x == Get(unix_parsed.v[i])
            IN  /\ AsciiDigitText(S, 10) =>
                       /\ IsSome(unix_parsed.v[i])
                       /\ SecondLimbs(x) = DigitLimbs(S)
                       /\ x.f = 0
                /\ AsciiDigitText(S, 13) =>
                       /\ IsSome(unix_parsed.v[i])
                       /\ SecondLimbs(x) = DigitLimbs(Take(S, 10))
                       /\ Microseconds(x, unix_parsed.tu)
                              = DigitsValue(Drop(S, 10)) * 1000

\* The largest text of 10 digits has a timestamp, far beyond 2038.
C5_Witness ==
    /\ EpochDone
    /\ Len(df) = 1
    /\ df[1].datetime_str = Run("9", 10)
    /\ IsSome(unix_parsed.v[1])
    /\ Get(unix_parsed.v[1]).d > 100000

\* The column "_normalized_dt" has been computed.
Normalized == pc \in {"coalesce_formats", "combine", "recalculate", "done"}

UtcMarker == <<" ", "U", "T", "C">>
GmtMarker == <<" ", "G", "M", "T">>
ZuluMarker == <<"Z">>
ZeroOffset == <<"+", "0", "0", ":", "0", "0">>

\* The positions of the text s where the marker m occurs.
Occurrences(s, m) ==
    {k \in 1..(Len(s) - Len(m) + 1) : SubSeq(s, k, k + Len(m) - 1) = m}

Highest(S) == CHOOSE k \in S : \A j \in S : k >= j

\* The text s with the occurrence of m at position k replaced by "+00:00".
ReplacedAt(s, m, k) == Take(s, k - 1) \o ZeroOffset \o Drop(s, k - 1 + Len(m))

\* The texts the claim allows for s: the last occurrence of " UTC" replaced,
\* the last occurrence of " GMT" replaced, a trailing "Z" replaced.
LastOccurrenceReplaced(s) ==
    {ReplacedAt(s, m, Highest(Occurrences(s, m))) :
        m \in {n \in {UtcMarker, GmtMarker} : Occurrences(s, n) # {}}}
      \cup (IF EndsWith(s, ZuluMarker) THEN {ReplacedAt(s, ZuluMarker, Len(s))} ELSE {})

\* C6 as stated: the normalised text is the raw text with the last
\* occurrence of " UTC" or " GMT", or a trailing "Z", replaced by "+00:00" and
\* nothing else changed; a text with none of the markers is unchanged.
C6_LastOccurrenceIsReplaced ==
    Normalized =>
        \A i \in Rows :
            LET s == df[i].datetime_str
            IN  IF LastOccurrenceReplaced(s) = {} THEN normalized_dt[i] = s
                ELSE normalized_dt[i] \in LastOccurrenceReplaced(s)

\* C6 as amended: the normalised text is the raw text with the " UTC",
\* " GMT" or "Z" that ends it replaced by "+00:00" and nothing else changed;
\* a text that ends in none of the three is unchanged, wherever else the
\* markers occur in it.
C6_TrailingMarkerIsReplaced ==
    Normalized =>
        \A i \in Rows :
            LET s == df[i].datetime_str
                ending == {m \in {UtcMarker, GmtMarker, ZuluMarker} : EndsWith(s, m)}
            IN  /\ Cardinality(ending) <= 1
                /\ ending = {} => normalized_dt[i] = s
                /\ \A m \in ending :
                       normalized_dt[i] = Take(s, Len(s) - Len(m)) \o ZeroOffset

\* A text with " UTC" at its end and once more before it has been normalised.
C6_Witness ==
    /\ Normalized
    /\ Len(df) = 1
    /\ EndsWith(df[1].datetime_str, UtcMarker)
    /\ Cardinality(Occurrences(df[1].datetime_str, UtcMarker)) = 2
    /\ normalized_dt[1] # df[1].datetime_str

\* The format without its offset items.
RECURSIVE WithoutOffset(_)
WithoutOffset(fmt) ==
    IF fmt = << >> THEN << >>
    ELSE IF Head(fmt) \in OffsetItems THEN WithoutOffset(Tail(fmt))
    ELSE <<Head(fmt)>> \o WithoutOffset(Tail(fmt))

\* C7: in the registry that comprehensive_parse uses (DATETIME_FORMATS)
\* every format with an offset item comes before the format of the same
\* layout without it.
C7_OffsetFormatsComeFirst ==
    entry = "comprehensive_parse" =>
        \A i \in 1..Len(formats) : \A j \in 1..Len(formats) :
            (TzAware(formats[i]) /\ WithoutOffset(formats[i]) = formats[j]) => i < j

\* C8: every present final timestamp is a UTC instant of microsecond
\* resolution: the merge keeps every fractional digit of a value the format
\* matcher parsed, down to the microsecond.
C8_FinalIsMicrosecondUtc ==
    Done =>
        \A i \in Rows :
            /\ IsSome(datetime_utc.v[i]) => datetime_utc.tz = "UTC"
            /\ IsSome(parsed_datetime.v[i]) =>
                   /\ IsSome(datetime_utc.v[i])
                   /\ Microseconds(Get(datetime_utc.v[i]), datetime_utc.tu)
                          = Microseconds(Get(parsed_datetime.v[i]), parsed_datetime.tu)

\* No format of the default registry parses the normalised text, and the
\* raw text is neither 10 nor 13 ASCII digits.
Unresolvable(s) ==
    /\ \A k \in 1..Len(DATETIME_FORMATS) :
           ~IsSome(StrToDatetime(NormalizeText(s), DATETIME_FORMATS[k]))
    /\ ~AsciiDigitText(s, 10)
    /\ ~AsciiDigitText(s, 13)

\* The final value of a text that is parsed as the only row of a frame.
AloneOutcome(s) ==
    Coalesce(<< ParsedDatetime(<<NormalizeText(s)>>, DATETIME_FORMATS),
                ReplaceTimeZoneUtc(UnixParsed(<<s>>)) >>).v[1]

\* C9: a row that no format and no digit-count rule resolves has an absent
\* final timestamp and is listed in unparseable with its row_id and its raw
\* text; unparseable keeps the order of the rows; and every other row of
\* the batch has the outcome it has when it is parsed alone.
C9_UnresolvedRowIsReportedAndIsolated ==
    Done =>
        /\ \A i \in Rows :
             Unresolvable(df[i].datetime_str) =>
                 /\ datetime_utc.v[i] = None
                 /\ \E k \in 1..Len(result.unparseable) :
                        result.unparseable[k] =
                            [row_id |-> df[i].row_id,
                             datetime_str |-> df[i].datetime_str]
                 /\ \A j \in Rows \ {i} :
                        datetime_utc.v[j] = AloneOutcome(df[j].datetime_str)
        /\ \A k1 \in 1..Len(result.unparseable) :
             \A k2 \in 1..Len(result.unparseable) :
                k1 < k2 => result.unparseable[k1].row_id < result.unparseable[k2].row_id

\* "2024-13-45" in the first row is reported, the second row is resolved.
C9_Witness ==
    /\ Done
    /\ Len(df) = 2
    /\ df[1].datetime_str = test_data[50]
    /\ Len(result.unparseable) = 1
    /\ result.unparseable[1].row_id = 0
    /\ IsSome(datetime_utc.v[2])

\* The final value of the only row is the given second of 2024-03-15 (day
\* 19797 of the epoch), with no fraction, in a UTC column.
ResolvesToMarch15(second) ==
    /\ datetime_utc.tz = "UTC"
    /\ IsSome(datetime_utc.v[1])
    /\ SameInstant(Get(datetime_utc.v[1]), datetime_utc.tu,
                   [d |-> 19797, s |-> second, f |-> 0], "us")

\* C10 as stated: "2024-03-15T14:30:00Z" resolves to 2024-03-15 14:30:00
\* UTC, "03/15/2024" to 2024-03-15 00:00:00 UTC, and "1710510600" and
\* "1710510600000" both to 2024-03-15 14:30:00 UTC.
C10_LiteralScenarios ==
    (Done /\ Len(df) = 1) =>
        /\ df[1].datetime_str = test_data[1] => ResolvesToMarch15(14 * 3600 + 30 * 60)
        /\ df[1].datetime_str = test_data[17] => ResolvesToMarch15(0)
        /\ df[1].datetime_str = test_data[38] => ResolvesToMarch15(14 * 3600 + 30 * 60)
        /\ df[1].datetime_str = test_data[39] => ResolvesToMarch15(14 * 3600 + 30 * 60)

\* C10 as amended: "2024-03-15T14:30:00Z" resolves to 2024-03-15 14:30:00
\* UTC, "03/15/2024" to 2024-03-15 00:00:00 UTC, and "1710510600" and
\* "1710510600000" both to 2024-03-15 13:50:00 UTC.
C10_LiteralScenariosAmended ==
    (Done /\ Len(df) = 1) =>
        /\ df[1].datetime_str = test_data[1] => ResolvesToMarch15(14 * 3600 + 30 * 60)
        /\ df[1].datetime_str = test_data[17] => ResolvesToMarch15(0)
        /\ df[1].datetime_str = test_data[38] => ResolvesToMarch15(13 * 3600 + 50 * 60)
        /\ df[1].datetime_str = test_data[39] => ResolvesToMarch15(13 * 3600 + 50 * 60)

\* "1710510600" has been resolved.
C10_Witness ==
    /\ Done
    /\ Len(df) = 1
    /\ df[1].datetime_str = test_data[38]
    /\ IsSome(datetime_utc.v[1])


---------------------------------------------------------------------------
(* Numeric dates: two two-digit fields and a four-digit year, separated by *)
(* slashes or by dashes, with or without a time of the day.                *)

FieldTexts ==
    { <<"0","0">>, <<"0","1">>, <<"0","2">>, <<"0","4">>, <<"1","2">>,
      <<"1","3">>, <<"2","9">>, <<"3","0">>, <<"3","1">>, <<"4","5">> }

YearTexts == { <<"2","0","2","4">>, <<"2","0","2","3">> }

\* No time, 14:30:00, midnight, and the last second of the day.
TimeTexts ==
    { << >>,
      <<" ","1","4",":","3","0",":","0","0">>,
      <<" ","0","0",":","0","0",":","0","0">>,
      <<" ","2","3",":","5","9",":","5","9">> }

Separators == {"/", "-"}

NumericText(sep, a, b, y, t) == a \o <<sep>> \o b \o <<sep>> \o y \o t

NumericTexts ==
    { NumericText(sep, a, b, y, t) :
        sep \in Separators, a \in FieldTexts, b \in FieldTexts,
        y \in YearTexts, t \in TimeTexts }

\* comprehensive_parse on a frame of one row that holds a numeric date.
InitNumeric ==
    \E text \in NumericTexts :
        InitWith("comprehensive_parse", DATETIME_FORMATS, MakeFrame(<<text>>))

SpecNumeric == InitNumeric /\ [][Next]_vars

\* The second of the day that a time text names (0 for no time).
SecondOfDay(t) ==
    IF t = << >> THEN 0
    ELSE DigitsValue(SubSeq(t, 2, 3)) * 3600 + DigitsValue(SubSeq(t, 5, 6)) * 60
             + DigitsValue(SubSeq(t, 8, 9))

\* y-m-d is a date of the calendar.
ValidDate(y, m, d) == m \in 1..12 /\ d \in 1..DaysInMonth(y, m)

\* The final value of row i is the time t of the date y-m-d.
RowIs(i, y, m, d, t) ==
    /\ IsSome(datetime_utc.v[i])
    /\ SameInstant(Get(datetime_utc.v[i]), datetime_utc.tu,
                   [d |-> DaysFromCivil(y, m, d), s |-> SecondOfDay(t), f |-> 0],
                   "us")

FinalIs(y, m, d, t) == RowIs(1, y, m, d, t)

\* C11: a slash-separated numeric date a/b/y, with or without a time, whose
\* first two fields are both in 1..12 resolves to month a, day b; and when
\* the result is the day-first reading (day a, month b) and that differs
\* from the month-first one, the first field is greater than 12.
C11_SlashDatesAreMonthFirst ==
    (Done /\ Len(df) = 1) =>
        \A a \in FieldTexts : \A b \in FieldTexts :
        \A y \in YearTexts : \A t \in TimeTexts :
            df[1].datetime_str = NumericText("/", a, b, y, t) =>
                LET fa == DigitsValue(a)
                    fb == DigitsValue(b)
                    fy == DigitsValue(y)
                IN  /\ (fa \in 1..12 /\ fb \in 1..12) => FinalIs(fy, fa, fb, t)
                    /\ (fa # fb /\ ValidDate(fy, fb, fa) /\ FinalIs(fy, fb, fa, t))
                           => fa > 12

\* "04/12/2024 14:30:00" has been resolved to April 12, not December 4.
C11_Witness ==
    /\ Done
    /\ Len(df) = 1
    /\ df[1].datetime_str
           = NumericText("/", <<"0","4">>, <<"1","2">>, <<"2","0","2","4">>,
                         <<" ","1","4",":","3","0",":","0","0">>)
    /\ FinalIs(2024, 4, 12, <<" ","1","4",":","3","0",":","0","0">>)
    /\ ~FinalIs(2024, 12, 4, <<" ","1","4",":","3","0",":","0","0">>)

\* comprehensive_parse on a frame of two rows that hold the same fields, the
\* first written with dashes and the second with slashes.
InitPair ==
    \E a \in FieldTexts : \E b \in FieldTexts :
    \E y \in YearTexts : \E t \in TimeTexts :
        InitWith("comprehensive_parse", DATETIME_FORMATS,
                 MakeFrame(<<NumericText("-", a, b, y, t),
                             NumericText("/", a, b, y, t)>>))

SpecPair == InitPair /\ [][Next]_vars

\* C13: a dash-separated numeric date a-b-y, with or without a time, whose
\* first two fields are both in 1..12 resolves to day a, month b; the same
\* fields written with slashes resolve to month a, day b, which is another
\* day of the calendar unless a = b.
C13_DashDatesAreDayFirst ==
    (Done /\ Len(df) = 2) =>
        \A a \in FieldTexts : \A b \in FieldTexts :
        \A y \in YearTexts : \A t \in TimeTexts :
            (/\ df[1].datetime_str = NumericText("-", a, b, y, t)
             /\ df[2].datetime_str = NumericText("/", a, b, y, t)
             /\ DigitsValue(a) \in 1..12
             /\ DigitsValue(b) \in 1..12) =>
                /\ RowIs(1, DigitsValue(y), DigitsValue(b), DigitsValue(a), t)
                /\ IsSome(datetime_utc.v[2])
                /\ a # b => Get(datetime_utc.v[1]).d # Get(datetime_utc.v[2]).d

\* "04-12-2024" has been resolved to December 4 and "04/12/2024" to April 12.
C13_Witness ==
    /\ Done
    /\ Len(df) = 2
    /\ df[1].datetime_str
           = NumericText("-", <<"0","4">>, <<"1","2">>, <<"2","0","2","4">>, << >>)
    /\ RowIs(1, 2024, 12, 4, << >>)
    /\ RowIs(2, 2024, 4, 12, << >>)

---------------------------------------------------------------------------
(* Digit texts of the epoch lengths whose digits are laid out like a       *)
(* compact date: year, month, day, hour, and for 13 digits minute and one  *)
(* digit of the second.  "1710510600" and "1710510600000" of the test      *)
(* data are among them.                                                    *)

CompactYears == { <<"1","7","0","1">>, <<"1","7","1","0">>, <<"2","0","2","4">> }
CompactMonths == { <<"0","1">>, <<"5","1">>, <<"1","2">> }
CompactDays == { <<"0","6">>, <<"1","2">>, <<"3","1">> }
CompactHours == { <<"0","0">>, <<"1","4">>, <<"2","3">> }
CompactMinutes == { <<"0","0">>, <<"3","0">> }
CompactSeconds == { <<"0">>, <<"5">> }

TenDigitTexts ==
    { y \o m \o d \o h :
        y \in CompactYears, m \in CompactMonths, d \in CompactDays,
        h \in CompactHours }

ThirteenDigitTexts ==
    { y \o m \o d \o h \o mi \o s :
        y \in CompactYears, m \in CompactMonths, d \in CompactDays,
        h \in CompactHours, mi \in CompactMinutes, s \in CompactSeconds }

\* comprehensive_parse on a frame of one row that holds such a digit text.
InitEpoch ==
    \E text \in TenDigitTexts \cup ThirteenDigitTexts :
        InitWith("comprehensive_parse", DATETIME_FORMATS, MakeFrame(<<text>>))

SpecEpoch == InitEpoch /\ [][Next]_vars

\* C12: no text of 10 or of 13 ASCII digits is parsed by a format of the
\* default registry, and the final value of such a text is the value of the
\* epoch detector.
C12_EpochTextsAreNeverFormatMatched ==
    (Done /\ Len(df) = 1) =>
        LET s == df[1].datetime_str
        IN  (AsciiDigitText(s, UNIX_SECONDS_DIGITS) \/ AsciiDigitText(s, UNIX_MILLIS_DIGITS)) =>
                /\ Matching(normalized_dt[1]) = {}
                /\ IsSome(unix_parsed.v[1])
                /\ SameValue(datetime_utc.v[1], datetime_utc.tu,
                             unix_parsed.v[1], unix_parsed.tu)

---------------------------------------------------------------------------
(* Texts that end in a timezone marker, or nearly do: a body followed by a *)
(* tail.                                                                   *)

ZuluBodies ==
    { << >>,
      <<"2","0","2","4","-","0","3","-","1","5","T","1","4",":","3","0",":","0","0">>,
      <<"2","0","2","4","-","0","3","-","1","5","T","1","4",":","3","0",":","0","0",".","1","2","3">>,
      <<"2","0","2","4","-","0","3","-","1","5"," ","1","4",":","3","0",":","0","0">>,
      <<"2","0","2","4","-","0","3","-","1","5","T","1","4",":","3","0">>,
      <<"2","0","2","4","-","0","3","-","1","5">>,
      <<"2","0","2","4","0","3","1","5","T","1","4","3","0","0","0">>,
      <<"2","0","2","4","0","3","1","5">>,
      <<"F","r","i",","," ","1","5"," ","M","a","r"," ","2","0","2","4"," ","1","4",":","3","0",":","0","0">>,
      <<"2","0","2","4","-","0","3","-","1","5","T","1","4",":","3","0",":","0","0","+","0","0",":","0","0">>,
      <<"1","7","1","0","5","1","0","6","0","0">> }

ZuluTails ==
    { << >>, <<"Z">>, <<" ","Z">>, <<"Z","Z">>, <<"z">>, <<"Z",Newline>>,
      <<" ","U","T","C">>, <<" ","G","M","T">>, <<" ","U","T","C","Z">>,
      <<"Z"," ","U","T","C">>, <<" ","G","M","T"," ","U","T","C">> }

ZuluTexts == { body \o tail : body \in ZuluBodies, tail \in ZuluTails }

\* comprehensive_parse on a frame of one row that holds such a text.
InitZulu ==
    \E text \in ZuluTexts :
        InitWith("comprehensive_parse", DATETIME_FORMATS, MakeFrame(<<text>>))

SpecZulu == InitZulu /\ [][Next]_vars

\* The formats of the registry in use that end in a literal "Z".
ZuluFormats == {k \in 1..Len(formats) : Last(formats[k]) = "Z"}

\* The number of the three replacements of lines 262-264 that change the
\* text s.
Substitutions(s) ==
    LET s1 == StrReplaceAtEnd(s, UtcMarker, ZeroOffset)
        s2 == StrReplaceAtEnd(s1, GmtMarker, ZeroOffset)
        s3 == StrReplaceAtEnd(s2, ZuluMarker, ZeroOffset)
    IN  (IF s1 # s THEN 1 ELSE 0) + (IF s2 # s1 THEN 1 ELSE 0)
            + (IF s3 # s2 THEN 1 ELSE 0)

\* C14: the normalised text never ends in "Z": at most one of the three
\* replacements changes a text, and the text it yields ends in "+00:00".  So
\* no format that ends in a literal "Z" parses a normalised text, and a text
\* that ends in "Z" is resolved by a format that holds "%:z", or is not
\* resolved.
C14_ZuluFormatsNeverResolve ==
    (Done /\ Len(df) = 1) =>
        LET raw == df[1].datetime_str
            s == normalized_dt[1]
            ok == Matching(s)
        IN  /\ ~EndsWith(s, ZuluMarker)
            /\ Substitutions(raw) <= 1
            /\ Substitutions(raw) = 1 => EndsWith(s, ZeroOffset)
            /\ ok \cap ZuluFormats = {}
            /\ EndsWith(raw, ZuluMarker) =>
                   IF ok = {} THEN datetime_utc.v[1] = None
                   ELSE /\ \E j \in 1..Len(formats[Lowest(ok)]) :
                               formats[Lowest(ok)][j] = "%:z"
                        /\ parsed_datetime.v[1] = StrToDatetime(s, formats[Lowest(ok)])
                        /\ IsSome(datetime_utc.v[1])

\* "2024-03-15T14:30:00Z" has been resolved, the registry has three formats
\* that end in "Z", and a format with "%:z" is the first to parse the text.
C14_Witness ==
    /\ Done
    /\ Len(df) = 1
    /\ df[1].datetime_str = test_data[1]
    /\ Cardinality(ZuluFormats) = 3
    /\ IsSome(datetime_utc.v[1])
    /\ Matching(normalized_dt[1]) # {}
    /\ "%:z" \in {formats[Lowest(Matching(normalized_dt[1]))][j] :
                    j \in 1..Len(formats[Lowest(Matching(normalized_dt[1]))])}
=============================================================================
